---- MODULE Spec2Model ----
(***************************************************************************)
(* Model of the chat-bubble frame generator (VibeframeCEO/MY-CHAT-VIDEO).  *)
(*                                                                         *)
(* Three deployments of the server are modelled, one per source file:      *)
(*   "A"  src/server.js          fixed canvas, scrolling window (yOffset)  *)
(*   "B"  src/unnamed/part_000   canvas sized to the content (cropHeight)  *)
(*   "C"  src/bubble-generator/server.js   one image per message           *)
(*                                                                         *)
(* Strings are sequences of one-character strings, " " being the space.    *)
(* Lengths are in pixels.  ctx.measureText is the canvas library's; it is  *)
(* modelled as a fixed-pitch font whose advance is half the font size.     *)
(***************************************************************************)
EXTENDS Integers, Sequences, FiniteSets, TLC

VARIABLES
    \* ---- the server process (Spec)
    variant,    \* which server file is deployed: "A" | "B" | "C"
    cloudName,  \* cloudinary.config().cloud_name is set
    envUpload,  \* process.env.CLOUDINARY_UPLOAD === 'true'
    envAtBoot,  \* the value of envUpload when the process started
    served,     \* number of POST /generate requests received so far
    \* ---- the request being handled
    pc,         \* "idle" | "frame" | "bg" | "upload" | "respond" | "done"
    body,       \* req.body
    bubbles,    \* the layout: per message [lines, bubbleW, bubbleH]
    positions,  \* the layout: per message its absolute y
    state,      \* loop variable of the frame loop, 0-based
    frame,      \* the frame rendered last (NoFrame before the first)
    files,      \* this request's frame files present in TMP_DIR, as
                \* <<request, state>>; files of earlier requests are not tracked
    results,    \* the results array of generateConversationFrames
    status,     \* HTTP status sent: 0 (none yet) | 200 | 400 | 500
    response,   \* the frames list of the JSON response
    threw,      \* what threw into the handler's catch: "none" | "loadImage" | "upload"
    \* ---- the text wrapper applied to one input (SpecWrap)
    wpc,        \* "init" | "wrapped" | "inlined"
    wtext,      \* the text handed to the wrapper
    wmax,       \* maxWidth handed to the wrapper
    wlines,     \* the lines it returned
    \* ---- the typing-placeholder resolver over one conversation (SpecTyping)
    tmsgs,      \* the messages: [sender, typing]
    tstate,     \* the state rendered last, -1 before the first
    tframes,    \* per state rendered, the visible indices in ascending order
    \* ---- the layout and the frames of one message list (SpecLayout)
    lvariant,   \* "A" | "B"
    lmsgs,      \* the message texts
    lheight,    \* options.height
    lbubbles,   \* bubbles, <<>> before the layout is built
    lpositions, \* positions, <<>> before the layout is built
    lstate,     \* the state rendered last; -2 before the layout, -1 after it
    lframes,    \* per state rendered: [yOffset, drawn, ys], ys[k] the bubbleY
                \* at which drawn[k] was painted
    \* ---- the clock and the cleanup job of TMP_DIR (SpecCleanup)
    now,        \* Date.now(), in minutes since the process started
    mtime,      \* per file of `files`, its modification time
    sweep,      \* the cleanup pass in progress: [phase, at, pending], or NoSweep
    sweptAge    \* now - mtime, as the job computed it, of the file it
                \* unlinked last; -1 when it has unlinked none

svars == <<variant, cloudName, envUpload, envAtBoot, served>>

rvars == <<pc, body, bubbles, positions, state, frame, files, results, status, response, threw>>

wvars == <<wpc, wtext, wmax, wlines>>

tvars == <<tmsgs, tstate, tframes>>

lvars == <<lvariant, lmsgs, lheight, lbubbles, lpositions, lstate, lframes>>

\* of the cleanup job, what the request handler never assigns
kvars == <<now, sweptAge>>

cvars == <<kvars, mtime, sweep>>

vars == <<svars, rvars, wvars, tvars, lvars, cvars>>

-----------------------------------------------------------------------------
(* Bounds of the model *)

MaxLen == 6          \* longest text handed to the wrapper in SpecWrap

MaxMsgs == 2         \* longest message list of a request

MaxRequests == 2     \* requests received in one run of the server

MaxStack == 3        \* longest message list laid out in SpecLayout

MaxClock == 3        \* minutes the clock of SpecCleanup runs

MaxConv == 4         \* longest conversation handed to the typing resolver

\* message texts of the requests: blank after trimming; two lines at width 200
Texts == { <<" ">>, <<"h", "i", " ", "y", "o">> }

\* body.width and body.height of the requests
Widths == {200}

Heights == {250, 1920}

Alphabet == {"a", "b", " "}

WrapFontSize == 48   \* fontSize default of src/server.js

\* maxWidth values tried by SpecWrap: narrower than one character, two
\* characters, three characters (a character of the model is 24 px wide)
WrapWidths == {20, 48, 72}

-----------------------------------------------------------------------------
(* Helpers *)

\* stands for null where a file name is expected
NoFile == <<>>

NoSweep == [phase |-> "none", at |-> 0, pending |-> {}]

NoFrame == [state |-> -1, canvasH |-> 0, yOffset |-> 0, drawn |-> <<>>,
            bgLoad |-> "none", bg |-> "none", file |-> NoFile, upload |-> FALSE]

NoBody == [kind |-> "missing", list |-> <<>>, cloudinaryUpload |-> FALSE,
           width |-> 0, height |-> 0]

Max(a, b) == IF a >= b THEN a ELSE b

Min(a, b) == IF a <= b THEN a ELSE b

\* Math.ceil(n / d) for d > 0
CeilDiv(n, d) == IF n % d = 0 THEN n \div d ELSE (n \div d) + 1

RECURSIVE SeqMax(_)
\* Math.max(...widths, 0)
SeqMax(s) == IF s = <<>> THEN 0 ELSE Max(Head(s), SeqMax(Tail(s)))

\* all sequences over S of length 0..n
SeqsUpTo(S, n) == UNION {[1..k -> S] : k \in 0..n}

-----------------------------------------------------------------------------
(* Text measurement and wrapping *)

\* ctx.measureText(text).width with ctx.font = `${fontSize}px sans-serif`
measureText(fontSize, text) == Len(text) * (fontSize \div 2)

RECURSIVE split(_)
\* text.split(' '): always at least one word; consecutive spaces give ''
split(text) ==
    IF \A i \in 1..Len(text) : text[i] # " "
    THEN <<text>>
    ELSE LET i == CHOOSE k \in 1..Len(text) :
                      text[k] = " " /\ \A j \in 1..(k-1) : text[j] # " "
         IN  <<SubSeq(text, 1, i - 1)>> \o split(SubSeq(text, i + 1, Len(text)))

RECURSIVE trim(_)
\* String.prototype.trim, for the one whitespace character of the model
trim(text) ==
    IF text = <<>> THEN text
    ELSE IF Head(text) = " " THEN trim(Tail(text))
    ELSE IF text[Len(text)] = " " THEN trim(SubSeq(text, 1, Len(text) - 1))
    ELSE text

RECURSIVE splitChars(_, _, _, _, _)
\* the character loop `for (const ch of word)`: returns the lines pushed so
\* far and the fragment left in hand
splitChars(fontSize, word, maxWidth, lines, fragment) ==
    IF word = <<>> THEN [lines |-> lines, fragment |-> fragment]
    ELSE LET ch == Head(word)
             t  == Append(fragment, ch)
         IN  IF measureText(fontSize, t) > maxWidth
             THEN splitChars(fontSize, Tail(word), maxWidth,
                             Append(lines, fragment), <<ch>>)
             ELSE splitChars(fontSize, Tail(word), maxWidth, lines, t)

\* lines 81-86: the last fragment of a word split while cur was non-empty
\* becomes the next cur
curAfterSplitDropped(fragment) == <<>>

curAfterSplit(fragment) == IF fragment # <<>> THEN fragment ELSE <<>>

\* one iteration of the word loop of wrapText; st = [lines, cur]
wrapWord(fontSize, st, word, maxWidth) ==
    LET cur  == st.cur
        test == IF cur # <<>> THEN cur \o <<" ">> \o word ELSE word
        w    == measureText(fontSize, test)
    IN  IF w > maxWidth
        THEN IF cur # <<>>
             THEN IF measureText(fontSize, word) > maxWidth
                  THEN LET r == splitChars(fontSize, word, maxWidth,
                                           Append(st.lines, cur), <<>>)
                       IN  [lines |-> r.lines, cur |-> curAfterSplit(r.fragment)]
                  ELSE [lines |-> Append(st.lines, cur), cur |-> word]
             ELSE LET r == splitChars(fontSize, word, maxWidth, st.lines, <<>>)
                  IN  [lines |-> IF r.fragment # <<>>
                                 THEN Append(r.lines, r.fragment)
                                 ELSE r.lines,
                       cur   |-> <<>>]
        ELSE [lines |-> st.lines, cur |-> test]

RECURSIVE wrapLoop(_, _, _, _)
wrapLoop(fontSize, st, words, maxWidth) ==
    IF words = <<>> THEN st
    ELSE wrapLoop(fontSize, wrapWord(fontSize, st, Head(words), maxWidth),
                  Tail(words), maxWidth)

\* wrapText(ctx, text, maxWidth) of src/server.js and src/unnamed/part_000
wrapText(fontSize, text, maxWidth) ==
    LET st == wrapLoop(fontSize, [lines |-> <<>>, cur |-> <<>>],
                       split(text), maxWidth)
    IN  IF st.cur # <<>> THEN Append(st.lines, st.cur) ELSE st.lines

\* one iteration of the inline wrap of generateBubbleImage
inlineWord(fontSize, st, word, maxBubbleWidth, bubblePaddingX) ==
    LET cur  == st.cur
        test == IF cur # <<>> THEN cur \o <<" ">> \o word ELSE word
        w    == measureText(fontSize, test)
    IN  IF w + bubblePaddingX * 2 > maxBubbleWidth
        THEN IF cur # <<>>
             THEN [lines |-> Append(st.lines, cur), cur |-> word]
             ELSE [lines |-> Append(st.lines, test), cur |-> <<>>]
        ELSE [lines |-> st.lines, cur |-> test]

RECURSIVE inlineLoop(_, _, _, _, _)
inlineLoop(fontSize, st, words, maxBubbleWidth, bubblePaddingX) ==
    IF words = <<>> THEN st
    ELSE inlineLoop(fontSize,
                    inlineWord(fontSize, st, Head(words), maxBubbleWidth, bubblePaddingX),
                    Tail(words), maxBubbleWidth, bubblePaddingX)

\* the wrap written inline in generateBubbleImage (bubble-generator/server.js)
inlineWrap(fontSize, text, maxBubbleWidth, bubblePaddingX) ==
    LET st == inlineLoop(fontSize, [lines |-> <<>>, cur |-> <<>>],
                         split(text), maxBubbleWidth, bubblePaddingX)
    IN  IF st.cur # <<>> THEN Append(st.lines, st.cur) ELSE st.lines

-----------------------------------------------------------------------------
(* Options of generateConversationFrames / generateBubbleImage *)

paddingTop == 140

paddingBottom == 140

cropMargin == 20     \* part_000: "only last bubble + 20px is included"

bubblePaddingX(v) == IF v = "B" THEN 32 ELSE 28

bubblePaddingY(v) == IF v = "B" THEN 24 ELSE 20

gapBetween(v) == IF v = "B" THEN 22 ELSE 18

\* body.fontSize || default; the requests of the model leave fontSize out
fontSize(v) == IF v = "B" THEN 54 ELSE 48

\* Math.floor(width * 0.75)
maxBubbleWidth(width) == (width * 3) \div 4

\* 100 * Math.max(fontSize * 1.12, fontSize + 6)
lineHeight100(fs) == Max(fs * 112, (fs + 6) * 100)

-----------------------------------------------------------------------------
(* Layout: bubbles and positions *)

RECURSIVE widths(_, _)
\* lines.map(l => mctx.measureText(l).width)
widths(fs, lines) ==
    IF lines = <<>> THEN <<>>
    ELSE <<measureText(fs, Head(lines))>> \o widths(fs, Tail(lines))

\* the callback of messages.map: one bubble
bubbleOf(v, width, msg) ==
    LET text      == trim(msg)
        lines     == wrapText(fontSize(v), text,
                              maxBubbleWidth(width) - bubblePaddingX(v) * 2)
        textWidth == SeqMax(widths(fontSize(v), lines))
    IN  [lines   |-> lines,
         bubbleW |-> Min(maxBubbleWidth(width), textWidth + bubblePaddingX(v) * 2),
         bubbleH |-> CeilDiv(Len(lines) * lineHeight100(fontSize(v))
                               + bubblePaddingY(v) * 2 * 100, 100)]

bubblesOf(v, width, messages) ==
    [k \in 1..Len(messages) |-> bubbleOf(v, width, messages[k])]

RECURSIVE positionsFromNoGap(_, _, _)
positionsFromNoGap(v, bs, cy) ==
    IF bs = <<>> THEN <<>>
    ELSE <<cy>> \o positionsFromNoGap(v, Tail(bs), cy + Head(bs).bubbleH)

RECURSIVE positionsFrom(_, _, _)
\* the loop `positions.push(cy); cy += bubbles[i].bubbleH + gapBetween`
positionsFrom(v, bs, cy) ==
    IF bs = <<>> THEN <<>>
    ELSE <<cy>> \o positionsFrom(v, Tail(bs), cy + Head(bs).bubbleH + gapBetween(v))

positionsOf(v, bs) == positionsFrom(v, bs, paddingTop)

-----------------------------------------------------------------------------
(* One frame: viewport and draw loop.  Indices are 0-based as in the code. *)

\* usedHeightUpToState (A); cropHeight (B)
usedHeightUpToState(pos, bs, s) == pos[s + 1] + bs[s + 1].bubbleH + paddingBottom

cropHeight(pos, bs, s) == pos[s + 1] + bs[s + 1].bubbleH + cropMargin

yOffsetUnclamped(used, height) == used - height

\* lines 199-208 of src/server.js
yOffsetFor(used, height) ==
    IF used > height
    THEN (IF used - height < 0 THEN 0 ELSE used - height)
    ELSE 0

\* the test before `continue` in the draw loop of src/server.js
culled(bubbleY, bubbleH, height) == bubbleY + bubbleH < 0 \/ bubbleY > height

drawLoopBoundShort(i, s) == i < s

\* `i <= state`
drawLoopBound(i, s) == i <= s

RECURSIVE drawLoopA(_, _, _, _, _, _)
\* the bubbles drawn by frame s of src/server.js, in the order drawn
drawLoopA(pos, bs, s, yOffset, height, i) ==
    IF ~drawLoopBound(i, s) THEN <<>>
    ELSE (IF culled(pos[i + 1] - yOffset, bs[i + 1].bubbleH, height)
          THEN <<>> ELSE <<i>>)
         \o drawLoopA(pos, bs, s, yOffset, height, i + 1)

RECURSIVE drawLoopB(_, _)
\* the bubbles drawn by frame s of part_000: every one of 0..s
drawLoopB(s, i) ==
    IF ~drawLoopBound(i, s) THEN <<>>
    ELSE <<i>> \o drawLoopB(s, i + 1)

\* the fill of the canvas: the template when it was loaded, else '#0f1720'
background(load) == IF load = "ok" THEN "image" ELSE "solid"

\* the frame rendered for state s; load is how the template load went:
\* "absent" (existsSync false) | "ok" | "failed"
frameOf(v, pos, bs, s, height, load, file, upload) ==
    LET off == IF v = "A"
               THEN yOffsetFor(usedHeightUpToState(pos, bs, s), height)
               ELSE 0
    IN  [state   |-> s,
         canvasH |-> IF v = "B" THEN Min(cropHeight(pos, bs, s), height) ELSE height,
         yOffset |-> off,
         drawn   |-> IF v = "A" THEN drawLoopA(pos, bs, s, off, height, 0)
                     ELSE IF v = "B" THEN drawLoopB(s, 0)
                     ELSE <<s>>,
         bgLoad  |-> load,
         bg      |-> background(load),
         file    |-> file,
         upload  |-> upload]

-----------------------------------------------------------------------------
(* The server: POST /generate *)

Variants == {"A", "B", "C"}

\* the request bodies of the model
Bodies ==
    {[kind |-> "array", list |-> l, cloudinaryUpload |-> u, width |-> w, height |-> h] :
        l \in SeqsUpTo(Texts, MaxMsgs), u \in BOOLEAN, w \in Widths, h \in Heights}
    \cup
    {[kind |-> k, list |-> <<>>, cloudinaryUpload |-> u, width |-> w, height |-> h] :
        k \in {"missing", "notArray"}, u \in BOOLEAN, w \in Widths, h \in Heights}

\* Array.isArray(body.messages) ? body.messages : []
messagesOf(b) == IF b.kind = "array" THEN b.list ELSE <<>>

acceptedAlways(messages) == TRUE

\* the negation of `if (!messages.length) return res.status(400)`
accepted(messages) == Len(messages) # 0

loopContinuesShort(s, n) == s < n - 1

\* `state < bubbles.length` (A, B); `i < messages.length` (C)
loopContinues(s, n) == s < n

\* cloudinary.config().cloud_name && process.env.CLOUDINARY_UPLOAD === 'true'
uploadMode == cloudName /\ envUpload

\* the frame file of the frame being made: `${frameBase}_${state}.png`
outPath == <<served, state>>

\* no layout under study
LayoutIdle ==
    /\ lvariant = "A" /\ lmsgs = <<>> /\ lheight = 0 /\ lbubbles = <<>>
    /\ lpositions = <<>> /\ lstate = -2 /\ lframes = <<>>

\* the process has just started: setInterval armed, TMP_DIR holds no frame
CleanupIdle ==
    /\ now = 0 /\ mtime = [f \in {} |-> 0] /\ sweep = NoSweep
    /\ sweptAge = -1

Init ==
    /\ variant \in Variants
    /\ cloudName \in BOOLEAN
    /\ envUpload \in BOOLEAN
    /\ envAtBoot = envUpload
    /\ served = 0
    /\ files = {}
    /\ pc = "idle"
    /\ body = NoBody
    /\ bubbles = <<>>
    /\ positions = <<>>
    /\ state = 0
    /\ frame = NoFrame
    /\ results = <<>>
    /\ status = 0
    /\ response = <<>>
    /\ threw = "none"
    /\ wpc = "init" /\ wtext = <<>> /\ wmax = 0 /\ wlines = <<>>
    /\ tmsgs = <<>> /\ tstate = -1 /\ tframes = <<>>
    /\ LayoutIdle
    /\ CleanupIdle

\* the handler from its start to the first frame (or to the 400)
StartRequest ==
    /\ pc \in {"idle", "done"}
    /\ served < MaxRequests
    /\ \E b \in Bodies :
        /\ body' = b
        /\ served' = served + 1
        /\ state' = 0
        /\ frame' = NoFrame
        /\ files' = {}
        /\ mtime' = [f \in {} |-> 0]
        /\ sweep' = [sweep EXCEPT !.pending = {}]   \* earlier files: untracked
        /\ results' = <<>>
        /\ response' = <<>>
        /\ threw' = "none"
        /\ IF ~accepted(messagesOf(b))
           THEN /\ status' = 400
                /\ pc' = "done"
                /\ bubbles' = <<>>
                /\ positions' = <<>>
                /\ UNCHANGED envUpload
           ELSE /\ status' = 0
                /\ envUpload' = IF variant # "C" /\ b.cloudinaryUpload
                                THEN TRUE ELSE envUpload
                /\ LET bs == IF variant = "C" THEN <<>>
                             ELSE bubblesOf(variant, b.width, messagesOf(b))
                   IN  /\ bubbles' = bs
                       /\ positions' = positionsOf(variant, bs)
                /\ pc' = IF loopContinues(0, Len(messagesOf(b)))
                         THEN "frame" ELSE "respond"
    /\ UNCHANGED <<variant, cloudName, envAtBoot, wvars, tvars, lvars, kvars>>

\* the end of one iteration of the frame loop
Advance ==
    /\ state' = state + 1
    /\ pc' = IF loopContinues(state + 1, Len(messagesOf(body)))
             THEN "frame" ELSE "respond"

\* an exception reaching the handler's catch: res.status(500)
Throw(what) ==
    /\ status' = 500
    /\ threw' = what
    /\ pc' = "done"
    /\ UNCHANGED <<state, frame, results, files, mtime>>

\* draw the frame after the template load went as `load`, write its file,
\* and either start the upload or push the local result
DrawAndSave(load) ==
    /\ frame' = frameOf(variant, positions, bubbles, state, body.height,
                        load, outPath, uploadMode)
    /\ files' = files \cup {outPath}               \* fs.writeFileSync
    /\ mtime' = [f \in files' |-> IF f = outPath THEN now ELSE mtime[f]]
    /\ IF uploadMode
       THEN /\ pc' = "upload"
            /\ UNCHANGED <<state, results>>
       ELSE /\ results' = Append(results,
                            [kind |-> IF variant = "C" THEN "localUrl" ELSE "file",
                             file |-> outPath])
            /\ Advance
    /\ UNCHANGED <<status, threw>>

\* top of the loop body, up to `await loadImage` when the template exists
BeginFrame ==
    /\ pc = "frame"
    /\ IF variant = "C" /\ trim(messagesOf(body)[state + 1]) = <<>>
       THEN /\ Advance                         \* `if (!text) continue`
            /\ UNCHANGED <<frame, results, files, mtime, status, threw>>
       ELSE \E exists \in BOOLEAN :            \* fs.existsSync(backgroundPath)
               IF exists
               THEN /\ pc' = "bg"
                    /\ UNCHANGED <<state, frame, results, files, mtime, status, threw>>
               ELSE DrawAndSave("absent")
    /\ UNCHANGED <<svars, body, bubbles, positions, response, wvars, tvars, lvars, kvars, sweep>>

\* loadImage settles
LoadImageDone ==
    /\ pc = "bg"
    /\ \E ok \in BOOLEAN :
          IF ok THEN DrawAndSave("ok")
          ELSE IF variant = "C" THEN Throw("loadImage")   \* no try/catch there
          ELSE DrawAndSave("failed")
    /\ UNCHANGED <<svars, body, bubbles, positions, response, wvars, tvars, lvars, kvars, sweep>>

filesAfterUploadAlways(fs, f, ok) == fs \ {f}

\* TMP_DIR after the upload of f settled: `fs.unlinkSync(outPath)` follows
\* the awaited upload inside the try, so it runs only when the upload
\* resolved
filesAfterUpload(fs, f, ok) == IF ok THEN fs \ {f} ELSE fs

\* cloudinary.uploader.upload settles
UploadDone ==
    /\ pc = "upload"
    /\ \E ok \in BOOLEAN :
          IF ok
          THEN /\ results' = Append(results, [kind |-> "url", file |-> outPath])
               /\ files' = filesAfterUpload(files, outPath, TRUE)
               /\ mtime' = [f \in files' |-> mtime[f]]
               /\ Advance
               /\ UNCHANGED <<frame, status, threw>>
          ELSE IF variant = "C" THEN Throw("upload")      \* no try/catch there
          ELSE /\ results' = Append(results, [kind |-> "path", file |-> outPath])
               /\ Advance
               /\ files' = filesAfterUpload(files, outPath, FALSE)
               /\ mtime' = [f \in files' |-> mtime[f]]
               /\ UNCHANGED <<frame, status, threw>>
    /\ UNCHANGED <<svars, body, bubbles, positions, response, wvars, tvars, lvars, kvars, sweep>>

\* one item of rawResults.map(...); "null" and NoFile stand for null
responseItem(v, item) ==
    IF v = "C" THEN [url |-> IF item.kind = "url" THEN "remote" ELSE "public",
                     local |-> NoFile]
    ELSE IF item.kind = "url"  THEN [url |-> "remote", local |-> NoFile]
    ELSE IF item.kind = "path" THEN [url |-> "null", local |-> item.file]
    ELSE [url |-> "public", local |-> item.file]

\* res.json({ frames: results })
Respond ==
    /\ pc = "respond"
    /\ response' = [k \in 1..Len(results) |-> responseItem(variant, results[k])]
    /\ status' = 200
    /\ pc' = "done"
    /\ UNCHANGED <<svars, body, bubbles, positions, state, frame, files, results, threw, wvars, tvars, lvars, cvars>>

Next == StartRequest \/ BeginFrame \/ LoadImageDone \/ UploadDone \/ Respond

Spec == Init /\ [][Next]_vars

-----------------------------------------------------------------------------
(* SpecCleanup: the server of Spec together with its clock and the cleanup *)
(* job of src/server.js and part_000 (bubble-generator has none).  Time is *)
(* counted in minutes.  The handler runs to its next await without         *)
(* interruption, so the clock and the job's callbacks move only while the  *)
(* handler is idle or awaiting.                                            *)

maxAge == 2          \* 2 * 60 * 1000 ms

sweepInterval == 1   \* 60 * 1000 ms

\* the event loop is free to run a timer or an fs callback
Awaiting == pc \in {"idle", "bg", "upload", "done"}

\* `now - stats.mtimeMs > maxAge`
tooOld(at, mt) == at - mt > maxAge

\* a minute passes without the timer firing: bubble-generator has no job
Tick ==
    /\ Awaiting
    /\ variant = "C"
    /\ now < MaxClock
    /\ now' = now + 1
    /\ UNCHANGED <<svars, rvars, wvars, tvars, lvars, mtime, sweep, sweptAge>>

\* the next minute passes and the setInterval callback runs:
\* `const now = Date.now(); fs.readdir(...)`.  The fs callbacks of the pass
\* before have all run by then.
SweepStart ==
    /\ Awaiting
    /\ variant # "C"
    /\ now < MaxClock
    /\ sweep.phase = "none"
    /\ now' = now + sweepInterval
    /\ sweep' = [phase |-> "readdir", at |-> now', pending |-> {}]
    /\ UNCHANGED <<svars, rvars, wvars, tvars, lvars, mtime, sweptAge>>

\* the readdir callback: one fs.stat per file found
ReaddirDone ==
    /\ Awaiting
    /\ sweep.phase = "readdir"
    /\ sweep' = IF files = {} THEN NoSweep
                ELSE [sweep EXCEPT !.phase = "stat", !.pending = files]
    /\ UNCHANGED <<svars, rvars, wvars, tvars, lvars, now, mtime, sweptAge>>

\* one fs.stat callback, with the fs.unlink it issues
StatDone ==
    /\ Awaiting
    /\ sweep.phase = "stat"
    /\ \E f \in sweep.pending :
          /\ sweep' = IF sweep.pending = {f} THEN NoSweep
                      ELSE [sweep EXCEPT !.pending = sweep.pending \ {f}]
          /\ IF f \in files /\ tooOld(sweep.at, mtime[f])
             THEN /\ files' = files \ {f}
                  /\ mtime' = [g \in files' |-> mtime[g]]
                  /\ sweptAge' = sweep.at - mtime[f]
             ELSE UNCHANGED <<files, mtime, sweptAge>>    \* stat error, or young
    /\ UNCHANGED <<svars, pc, body, bubbles, positions, state, frame, results,
                   status, response, threw, wvars, tvars, lvars, now>>

NextCleanup ==
    \/ StartRequest \/ BeginFrame \/ LoadImageDone \/ UploadDone \/ Respond
    \/ Tick \/ SweepStart \/ ReaddirDone \/ StatDone

SpecCleanup == Init /\ [][NextCleanup]_vars

-----------------------------------------------------------------------------
(* SpecWrap: the wrappers applied to every text and width of the bounds *)

\* the server with no request received
ServerIdle ==
    /\ variant = "A" /\ cloudName = FALSE /\ envUpload = FALSE
    /\ envAtBoot = FALSE /\ served = 0 /\ files = {}
    /\ pc = "idle" /\ body = NoBody /\ bubbles = <<>> /\ positions = <<>>
    /\ state = 0 /\ frame = NoFrame /\ results = <<>> /\ status = 0
    /\ response = <<>> /\ threw = "none"

WrapPadX == 28       \* bubblePaddingX default of bubble-generator/server.js

InitWrap ==
    /\ wpc = "init"
    /\ wtext \in SeqsUpTo(Alphabet, MaxLen)
    /\ wmax \in WrapWidths
    /\ wlines = <<>>
    /\ ServerIdle
    /\ tmsgs = <<>> /\ tstate = -1 /\ tframes = <<>>
    /\ LayoutIdle
    /\ CleanupIdle

\* lines = wrapText(mctx, text, maxWidth)
ApplyWrapText ==
    /\ wpc = "init"
    /\ wlines' = wrapText(WrapFontSize, wtext, wmax)
    /\ wpc' = "wrapped"
    /\ UNCHANGED <<wtext, wmax, svars, rvars, tvars, lvars, cvars>>

\* the inline wrap, called with maxBubbleWidth = wmax + 2 * bubblePaddingX
ApplyInlineWrap ==
    /\ wpc = "init"
    /\ wlines' = inlineWrap(WrapFontSize, wtext, wmax + 2 * WrapPadX, WrapPadX)
    /\ wpc' = "inlined"
    /\ UNCHANGED <<wtext, wmax, svars, rvars, tvars, lvars, cvars>>

NextWrap == ApplyWrapText \/ ApplyInlineWrap

SpecWrap == InitWrap /\ [][NextWrap]_vars

-----------------------------------------------------------------------------
(* SpecTyping: which typing placeholders a frame shows.  The servers under *)
(* src/ draw every bubble 0..state; the resolver below is the one of the   *)
(* specification (TypingVisibilityResolver), applied inside that loop.     *)

Senders == {"Sender", "Receiver"}

MsgKinds == [sender : Senders, typing : BOOLEAN]

RECURSIVE nextRealAnySender(_, _, _)
nextRealAnySender(msgs, sender, k) ==
    IF k >= Len(msgs) THEN -1
    ELSE IF ~msgs[k + 1].typing THEN k
    ELSE nextRealAnySender(msgs, sender, k + 1)

RECURSIVE nextReal(_, _, _)
\* forward search from index k for the nearest non-typing message of
\* sender; -1 when there is none
nextReal(msgs, sender, k) ==
    IF k >= Len(msgs) THEN -1
    ELSE IF ~msgs[k + 1].typing /\ msgs[k + 1].sender = sender THEN k
    ELSE nextReal(msgs, sender, k + 1)

\* bubble j is shown in the frame of state s
typingVisible(msgs, j, s) ==
    IF ~msgs[j + 1].typing THEN TRUE
    ELSE LET r == nextReal(msgs, msgs[j + 1].sender, j + 1)
         IN  r = -1 \/ r > s

RECURSIVE visibleIndices(_, _, _)
\* the indices of 0..s shown in the frame of state s, in the order of the
\* draw loop
visibleIndices(msgs, s, j) ==
    IF ~drawLoopBound(j, s) THEN <<>>
    ELSE (IF typingVisible(msgs, j, s) THEN <<j>> ELSE <<>>)
         \o visibleIndices(msgs, s, j + 1)

InitTyping ==
    /\ tmsgs \in SeqsUpTo(MsgKinds, MaxConv) \ {<<>>}
    /\ tstate = -1
    /\ tframes = <<>>
    /\ ServerIdle
    /\ wpc = "init" /\ wtext = <<>> /\ wmax = 0 /\ wlines = <<>>
    /\ LayoutIdle
    /\ CleanupIdle

\* one iteration of the frame loop: the frame of the next state
RenderTypingFrame ==
    /\ loopContinues(tstate + 1, Len(tmsgs))
    /\ tstate' = tstate + 1
    /\ tframes' = Append(tframes, visibleIndices(tmsgs, tstate + 1, 0))
    /\ UNCHANGED <<tmsgs, svars, rvars, wvars, lvars, cvars>>

NextTyping == RenderTypingFrame

SpecTyping == InitTyping /\ [][NextTyping]_vars

-----------------------------------------------------------------------------
(* SpecLayout: the layout of one message list and the frames of all its   *)
(* states, every frame kept, for the two state-per-frame servers.         *)

LayoutTexts == Texts \cup { <<"h", "i">> }

LayoutHeights == Heights \cup {400}

\* `const bubbleY = positions[i] - yOffset` (A); `positions[i]` (B)
bubbleY(v, pos, i, yOffset) ==
    IF v = "A" THEN pos[i + 1] - yOffset ELSE pos[i + 1]

InitLayout ==
    /\ lvariant \in {"A", "B"}
    /\ lmsgs \in SeqsUpTo(LayoutTexts, MaxStack) \ {<<>>}
    /\ lheight \in LayoutHeights
    /\ lbubbles = <<>> /\ lpositions = <<>>
    /\ lstate = -2
    /\ lframes = <<>>
    /\ ServerIdle
    /\ wpc = "init" /\ wtext = <<>> /\ wmax = 0 /\ wlines = <<>>
    /\ tmsgs = <<>> /\ tstate = -1 /\ tframes = <<>>
    /\ CleanupIdle

\* the pre-calculation before the state loop: bubbles, then positions
BuildLayout ==
    /\ lstate = -2
    /\ lbubbles' = bubblesOf(lvariant, 200, lmsgs)
    /\ lpositions' = positionsOf(lvariant, lbubbles')
    /\ lstate' = -1
    /\ UNCHANGED <<lvariant, lmsgs, lheight, lframes, svars, rvars, wvars, tvars, cvars>>

\* one iteration of the state loop, as far as the geometry goes
RenderLayoutFrame ==
    /\ lstate >= -1
    /\ loopContinues(lstate + 1, Len(lbubbles))
    /\ LET f == frameOf(lvariant, lpositions, lbubbles, lstate + 1, lheight,
                        "absent", NoFile, FALSE)
       IN  lframes' = Append(lframes,
               [yOffset |-> f.yOffset,
                drawn   |-> f.drawn,
                ys      |-> [k \in 1..Len(f.drawn) |->
                               bubbleY(lvariant, lpositions, f.drawn[k], f.yOffset)]])
    /\ lstate' = lstate + 1
    /\ UNCHANGED <<lvariant, lmsgs, lheight, lbubbles, lpositions, svars, rvars, wvars, tvars, cvars>>

NextLayout == BuildLayout \/ RenderLayoutFrame

SpecLayout == InitLayout /\ [][NextLayout]_vars

-----------------------------------------------------------------------------
(* Properties of the wrappers *)

RECURSIVE nonEmpty(_)
nonEmpty(ws) ==
    IF ws = <<>> THEN <<>>
    ELSE IF Head(ws) = <<>> THEN nonEmpty(Tail(ws))
    ELSE <<Head(ws)>> \o nonEmpty(Tail(ws))

\* the words of a text: its maximal runs of non-space characters, in order
Words(text) == nonEmpty(split(text))

\* the word sequences obtained from acc by reading one more line: its words
\* follow after a space, or its first word continues the last word of acc
\* (the line break was a forced split inside a word)
ReadLine(acc, line) ==
    LET toks == Words(line)
    IN  IF toks = <<>> THEN {acc}
        ELSE {acc \o toks} \cup
             (IF acc = <<>> THEN {}
              ELSE {SubSeq(acc, 1, Len(acc) - 1)
                      \o <<acc[Len(acc)] \o Head(toks)>> \o Tail(toks)})

RECURSIVE Readings(_, _)
\* every word sequence the lines can be read as
Readings(accs, lines) ==
    IF lines = <<>> THEN accs
    ELSE Readings(UNION {ReadLine(acc, Head(lines)) : acc \in accs}, Tail(lines))

\* C5: the lines returned by wrapText, read in order, hold the words of the
\* text in their original order, none dropped or duplicated: joining the
\* lines with spaces and re-joining the fragments of force-split words gives
\* back the word sequence of the text.
C5_WrapKeepsWords ==
    wpc = "wrapped" => Words(wtext) \in Readings({<<>>}, wlines)

\* C5 witness: wrapText met an over-wide word while cur was non-empty,
\* split it, and went on to a later word
C5_Witness ==
    /\ wpc = "wrapped"
    /\ wmax = 48
    /\ Len(Words(wtext)) >= 2
    /\ measureText(WrapFontSize, Words(wtext)[1]) <= wmax
    /\ measureText(WrapFontSize, Words(wtext)[2]) > wmax
    /\ Len(wlines) >= 3

\* C6 (as claimed): no line returned by a wrapper is wider than maxWidth;
\* an over-wide word is split into fragments none of which is wider.
C6_NoLineWiderThanMax ==
    wpc \in {"wrapped", "inlined"} =>
        \A k \in 1..Len(wlines) : measureText(WrapFontSize, wlines[k]) <= wmax

\* the wrapper's [lines, cur] after the first i words of wtext
afterWords(i) ==
    wrapLoop(WrapFontSize, [lines |-> <<>>, cur |-> <<>>],
             SubSeq(split(wtext), 1, i), wmax)

\* the last fragment of the character-by-character split of word i
trailingFragment(i) ==
    splitChars(WrapFontSize, split(wtext)[i], wmax, <<>>, <<>>).fragment

\* line has the prefix p
StartsWith(line, p) == Len(line) >= Len(p) /\ SubSeq(line, 1, Len(p)) = p

\* word i of wtext is force-split, whatever the buffer held when it was
\* reached: its trailing fragment is the buffer afterwards and a following
\* word that fits is appended to it, on one line of the result
FragmentSeedsNextLine(i) ==
    LET ws   == split(wtext)
        f    == trailingFragment(i)
        next == f \o <<" ">> \o ws[i + 1]
    IN  /\ afterWords(i).cur = f
        /\ (i < Len(ws) /\ measureText(WrapFontSize, next) <= wmax) =>
              /\ afterWords(i + 1).cur = next
              /\ \E k \in 1..Len(wlines) : StartsWith(wlines[k], next)

\* C13 (as claimed): whenever wrapText force-splits an over-wide word,
\* whether the line buffer was empty or not when the word was reached, the
\* trailing fragment is not flushed: it becomes the line buffer, and a
\* following word that still fits is appended to the same line.
C13_TrailingFragmentKept ==
    wpc = "wrapped" =>
        \A i \in 1..Len(split(wtext)) :
            measureText(WrapFontSize, split(wtext)[i]) > wmax
                => FragmentSeedsNextLine(i)

-----------------------------------------------------------------------------
(* Properties of the server *)

\* the number of messages of the request being handled
N == Len(messagesOf(body))

\* a frame of the state-per-frame servers has been rendered
Rendered == variant \in {"A", "B"} /\ frame # NoFrame

\* top and bottom edge of bubble i in the frame rendered last
topEdge(i) == positions[i + 1] - frame.yOffset

bottomEdge(i) == topEdge(i) + bubbles[i + 1].bubbleH

\* C1: generateConversationFrames returns exactly N entries for a list of N
\* messages, the k-th being the frame rendered for state k (file suffix k):
\* frames are produced in increasing state order 0..N-1, none skipped,
\* repeated or reordered.
C1_OneFramePerStateInOrder ==
    variant \in {"A", "B"} =>
        /\ \A k \in 1..Len(results) : results[k].file = <<served, k - 1>>
        /\ frame # NoFrame =>
              /\ frame.file = <<served, frame.state>>
              /\ frame.state = IF pc \in {"bg", "frame"} THEN state - 1 ELSE
                               IF pc = "upload" THEN state ELSE N - 1
        /\ Len(results) = (IF pc \in {"respond", "done"} /\ status # 400
                           THEN N ELSE state)
        /\ status = 200 => Len(response) = N

\* C1 witness: a list of at least two messages was served to the end
C1_Witness ==
    /\ variant \in {"A", "B"}
    /\ status = 200
    /\ N >= 2
    /\ Len(results) = N

\* C2 (as claimed): in every frame the latest bubble (index s) is fully
\* visible: its top edge after the offset is >= 0 and its bottom edge is
\* <= the canvas height, in the scrolling design and in the content-sized one.
C2_LatestBubbleFullyVisible ==
    Rendered =>
        /\ topEdge(frame.state) >= 0
        /\ bottomEdge(frame.state) <= frame.canvasH

\* C3: with usedHeight = positions[s] + bubbleH[s] + paddingBottom, the
\* offset of frame s is 0 when usedHeight <= height, otherwise
\* usedHeight - offset = height exactly; and the offset is never negative.
C3_OffsetExact ==
    (variant = "A" /\ frame # NoFrame) =>
        LET s    == frame.state
            used == positions[s + 1] + bubbles[s + 1].bubbleH + paddingBottom
        IN  /\ used <= body.height => frame.yOffset = 0
            /\ used > body.height => used - frame.yOffset = body.height
            /\ frame.yOffset >= 0

\* C3 witness: a frame of the scrolling design that had to scroll
C3_Witness ==
    /\ variant = "A"
    /\ frame # NoFrame
    /\ frame.state >= 1
    /\ frame.yOffset > 0

\* bubble i lies entirely outside [0, canvasHeight] in the frame rendered last
EntirelyOutside(i) == bottomEdge(i) < 0 \/ topEdge(i) > frame.canvasH

\* C4 (as claimed): the bubbles drawn in frame s are exactly those of index
\* i <= s not entirely outside [0, canvasHeight] after the offset; none of
\* index > s is drawn; they are drawn in ascending index order; and when
\* the stack up to s fits the canvas every bubble 0..s is drawn.
C4_DrawnExactlyTheVisible ==
    Rendered =>
        LET s == frame.state
            d == frame.drawn
        IN  /\ {d[k] : k \in 1..Len(d)} = {i \in 0..s : ~EntirelyOutside(i)}
            /\ \A k \in 1..Len(d) : d[k] <= s
            /\ \A k \in 1..(Len(d) - 1) : d[k] < d[k + 1]
            /\ bottomEdge(s) <= frame.canvasH /\ frame.yOffset = 0
                  => Len(d) = s + 1

\* C7: a request whose message list is missing, not an array or empty is
\* answered 400 before any layout work; no frame file is written, no
\* upload is attempted and no frames are returned for it.
C7_EmptyListRejected ==
    (served > 0 /\ N = 0) =>
        /\ status = 400
        /\ pc = "done"
        /\ bubbles = <<>> /\ positions = <<>>
        /\ frame = NoFrame
        /\ files = {}
        /\ results = <<>> /\ response = <<>>

\* C7 witness: a request with a malformed list rejected after one that was
\* served
C7_Witness ==
    /\ served = 2
    /\ body.kind = "notArray"
    /\ status = 400

\* C8 (as claimed): a failure to load the background image never aborts
\* generation: the frame is drawn on the solid fallback colour and is
\* still produced.
C8_BackgroundFailureNotFatal ==
    /\ threw # "loadImage"
    /\ frame.bgLoad = "failed" => frame.bg = "solid"

\* C9 (as claimed): the upload mode applied to a request's frames is
\* determined by that request's own configuration alone (and the
\* deployment's): a request with cloudinaryUpload = true changes it for no
\* later request.
C9_UploadModePerRequest ==
    Rendered =>
        (frame.upload <=> (cloudName /\ (envAtBoot \/ body.cloudinaryUpload)))

\* the number of result entries that name the frame file of state s
framesOfState(s) ==
    Cardinality({k \in 1..Len(results) : results[k].file = <<served, s>>})

\* C11 (as claimed): a frame is produced for state s exactly when message s
\* is non-empty text after trimming: every such state yields exactly one
\* frame, and a state whose message has empty text yields no frame.
C11_FrameIffNonEmptyText ==
    status = 200 =>
        \A s \in 0..(N - 1) :
            framesOfState(s) =
                (IF trim(messagesOf(body)[s + 1]) # <<>> THEN 1 ELSE 0)

-----------------------------------------------------------------------------
(* Properties of the cleanup job *)

\* the job has unlinked only files older than maxAge when its pass started
SweptOnlyOld == sweptAge = -1 \/ sweptAge > maxAge

\* the handler is about to send the response and every local frame file
\* the response will reference is in TMP_DIR
ReferencedFilesExist ==
    pc = "respond" =>
        \A k \in 1..Len(results) :
            responseItem(variant, results[k]).local # NoFile
                => results[k].file \in files

\* C15 (as claimed): under every interleaving of the cleanup timer with
\* frame generation, the sweep deletes only files whose modification age
\* exceeded 2 minutes when the sweep started, and every local frame file
\* referenced in a generate response still exists on disk at the moment
\* that response is sent.
C15_CleanupSparesReturnedFiles ==
    /\ SweptOnlyOld
    /\ ReferencedFilesExist

-----------------------------------------------------------------------------
(* Properties of the layout *)

\* bubble i is painted in the frame of state s
DrawnIn(i, s) == \E k \in 1..Len(lframes[s + 1].drawn) : lframes[s + 1].drawn[k] = i

\* the y at which bubble i is painted in the frame of state s
YIn(i, s) ==
    LET f == lframes[s + 1]
    IN  f.ys[CHOOSE k \in 1..Len(f.drawn) : f.drawn[k] = i]

\* the layout is in place and is the one built from the message list
LayoutBuilt ==
    /\ Len(lbubbles) = Len(lmsgs)
    /\ Len(lpositions) = Len(lmsgs)
    /\ Len(lframes) = lstate + 1

\* C12: positions[0] is the top margin and positions[i+1] = positions[i] +
\* bubbleH[i] + gap, so Y is strictly increasing and no two bubbles overlap
\* vertically; the layout does not depend on the state rendered: a bubble's
\* absolute position (painted y plus the frame's offset) is positions[i] in
\* every frame, and the vertical distance between two bubbles is the same in
\* every frame that paints both.
C12_LayoutOnceAndStable ==
    lstate >= -1 =>
        /\ LayoutBuilt
        /\ lpositions[1] = paddingTop
        /\ \A i \in 1..(Len(lpositions) - 1) :
              /\ lpositions[i + 1] =
                    lpositions[i] + lbubbles[i].bubbleH + gapBetween(lvariant)
              /\ lpositions[i + 1] > lpositions[i]
              /\ lpositions[i] + lbubbles[i].bubbleH <= lpositions[i + 1]
        /\ \A s \in 0..lstate : \A i \in 0..s :
              DrawnIn(i, s) => YIn(i, s) + lframes[s + 1].yOffset = lpositions[i + 1]
        /\ \A s \in 0..lstate : \A t \in 0..lstate : \A a \in 0..s : \A b \in 0..s :
              (DrawnIn(a, s) /\ DrawnIn(b, s) /\ DrawnIn(a, t) /\ DrawnIn(b, t))
                 => YIn(b, s) - YIn(a, s) = YIn(b, t) - YIn(a, t)

\* C12 witness: two bubbles painted in two frames of different offsets
C12_Witness ==
    /\ lstate >= 2
    /\ lframes[2].yOffset # lframes[3].yOffset
    /\ DrawnIn(0, 1) /\ DrawnIn(1, 1)
    /\ DrawnIn(0, 2) /\ DrawnIn(1, 2)
    /\ YIn(0, 1) # YIn(0, 2)

-----------------------------------------------------------------------------
(* Properties of the typing resolver *)

\* bubble j is among the visible indices of the frame of state s
ShownIn(j, s) == \E k \in 1..Len(tframes[s + 1]) : tframes[s + 1][k] = j

\* a real (non-typing) message of the sender of j lies in j+1..s
Superseded(j, s) ==
    \E k \in (j + 1)..s :
        ~tmsgs[k + 1].typing /\ tmsgs[k + 1].sender = tmsgs[j + 1].sender

\* the nearest real message of the sender of j after j is index r
NearestReal(j, r) ==
    /\ r > j /\ r < Len(tmsgs)
    /\ ~tmsgs[r + 1].typing /\ tmsgs[r + 1].sender = tmsgs[j + 1].sender
    /\ \A k \in (j + 1)..(r - 1) :
          tmsgs[k + 1].typing \/ tmsgs[k + 1].sender # tmsgs[j + 1].sender

\* C10: for every state s and index j <= s, a non-typing bubble j is
\* visible in frame s; a typing placeholder j of sender S is visible in
\* frame s exactly when the nearest non-typing message of S after j does
\* not exist or has index > s, and stays suppressed in every later frame;
\* a message of the other sender never suppresses it.
C10_TypingVisibility ==
    \A s \in 0..tstate : \A j \in 0..s :
        /\ ~tmsgs[j + 1].typing => ShownIn(j, s)
        /\ tmsgs[j + 1].typing =>
              /\ ShownIn(j, s) <=>
                    ~\E r \in (j + 1)..s : NearestReal(j, r)
              /\ ~ShownIn(j, s) => \A s2 \in s..tstate : ~ShownIn(j, s2)
              /\ ~Superseded(j, s) => ShownIn(j, s)

\* C10 witness: the conversation [typing(A), typing(A), text(A), text(B)]
\* rendered to its last state: the placeholders were shown, then suppressed
C10_Witness ==
    /\ Len(tmsgs) = 4
    /\ tstate = 3
    /\ tmsgs[1].typing /\ tmsgs[2].typing /\ ~tmsgs[3].typing /\ ~tmsgs[4].typing
    /\ tmsgs[1].sender = tmsgs[2].sender /\ tmsgs[2].sender = tmsgs[3].sender
    /\ tmsgs[4].sender # tmsgs[1].sender
    /\ tframes[1] = <<0>>
    /\ tframes[2] = <<0, 1>>
    /\ tframes[3] = <<2>>
    /\ tframes[4] = <<2, 3>>

====
